---------------------------- MODULE Spec2Model ----------------------------
(***************************************************************************)
(* Model of crates/lib/src/trash_info.rs: the TrashInfo record, its        *)
(* percent-encoded path, its textual rendering, save (exclusive create),   *)
(* parse_from_path, check_extension and the ordering of records.           *)
(*                                                                         *)
(* Text and paths are sequences of bytes (0..255).  A Rust String / &str   *)
(* is a byte sequence that is well-formed UTF-8; a Path is any byte        *)
(* sequence.  Results are records with a "tag" field.                      *)
(***************************************************************************)
EXTENDS Integers, Sequences, FiniteSets, TLC

VARIABLES
    \* --- construction / rendering / parsing pipeline
    real_path,      \* argument of TrashInfo::new
    date_arg,       \* Option<NaiveDateTime> argument of TrashInfo::new
    info,           \* Result<TrashInfo> of TrashInfo::new
    text,           \* the text in hand: to_string() of info, or a foreign record text
    parsed,         \* Result<TrashInfo> of text.parse::<TrashInfo>()
    decodedInfo,    \* Result of info.path_decoded()
    decodedParsed,  \* Result of parsed.path_decoded()
    \* --- ordering
    recs,           \* three TrashInfo values
    cmps,           \* cmp / partial_cmp of every pair of them
    \* --- parse_from_path
    lpath,          \* the path argument
    disk,           \* what the filesystem holds at lpath
    lpc,            \* position inside parse_from_path
    ltrace,         \* the steps parse_from_path has performed
    extres,         \* what check_extension returned
    lres,           \* what parse_from_path returned
    \* --- save
    files,          \* the trash-info directory: target path -> file content
    calls           \* the save calls: call id -> its state

codecVars == <<real_path, date_arg, info, text, parsed, decodedInfo, decodedParsed>>
ordVars   == <<recs, cmps>>
loadVars  == <<lpath, disk, lpc, ltrace, extres, lres>>
saveVars  == <<files, calls>>
vars      == <<codecVars, ordVars, loadVars, saveVars>>

notCodec == <<ordVars, loadVars, saveVars>>
notOrd   == <<codecVars, loadVars, saveVars>>
notLoad  == <<codecVars, ordVars, saveVars>>
notSave  == <<codecVars, ordVars, loadVars>>

---------------------------------------------------------------------------
(* Bounds *)

MaxPathLen   == 3   \* bytes of a generated real path
MaxStoredLen == 3   \* bytes of a generated foreign Path= value
MaxStem      == 2   \* bytes of a generated file name before its tail
NumCalls     == 2   \* save calls in one run
MaxShortWrites == 1 \* short write(2) counts accepted inside one write_all

---------------------------------------------------------------------------
(* Generic helpers *)

Unset == [tag |-> "Unset"]
Ok(v) == [tag |-> "Ok", val |-> v]
Err(k, c) == [tag |-> "Err", kind |-> k, ctx |-> c]

RECURSIVE SeqsUpTo(_, _)
SeqsUpTo(S, n) ==
    IF n = 0 THEN { <<>> }
    ELSE LET shorter == SeqsUpTo(S, n - 1)
         IN  shorter \cup { Append(s, x) : s \in shorter, x \in S }

IsPrefix(p, s) == Len(p) <= Len(s) /\ SubSeq(s, 1, Len(p)) = p

\* position of the first byte b at or after i, or 0
RECURSIVE IndexFrom(_, _, _)
IndexFrom(s, b, i) ==
    IF i > Len(s) THEN 0
    ELSE IF s[i] = b THEN i
    ELSE IndexFrom(s, b, i + 1)

\* position of the last byte b at or before i, or 0
RECURSIVE LastIndexFrom(_, _, _)
LastIndexFrom(s, b, i) ==
    IF i < 1 THEN 0
    ELSE IF s[i] = b THEN i
    ELSE LastIndexFrom(s, b, i - 1)

---------------------------------------------------------------------------
(* UTF-8 well-formedness: Path::to_str (line 102) and decode_utf8          *)
(* (line 152) both succeed exactly on well-formed UTF-8.                   *)

IsCont(b) == b >= 128 /\ b <= 191

Utf8Width(b) ==
    IF b < 128 THEN 1
    ELSE IF b >= 194 /\ b <= 223 THEN 2
    ELSE IF b >= 224 /\ b <= 239 THEN 3
    ELSE IF b >= 240 /\ b <= 244 THEN 4
    ELSE 0

Utf8Second(first, next) ==
    CASE first = 224 -> next >= 160 /\ next <= 191
      [] first = 237 -> next >= 128 /\ next <= 159
      [] first = 240 -> next >= 144 /\ next <= 191
      [] first = 244 -> next >= 128 /\ next <= 143
      [] OTHER -> IsCont(next)

RECURSIVE Utf8ValidFrom(_, _)
Utf8ValidFrom(s, i) ==
    IF i > Len(s) THEN TRUE
    ELSE LET w == Utf8Width(s[i])
         IN  /\ w # 0
             /\ i + w - 1 <= Len(s)
             /\ w >= 2 => Utf8Second(s[i], s[i + 1])
             /\ \A k \in (i + 2)..(i + w - 1) : IsCont(s[k])
             /\ Utf8ValidFrom(s, i + w)

Utf8Valid(s) == Utf8ValidFrom(s, 1)

---------------------------------------------------------------------------
(* Percent-encoding *)

IsDigit(b) == b >= 48 /\ b <= 57
IsAsciiAlphanumeric(b) ==
    IsDigit(b) \/ (b >= 65 /\ b <= 90) \/ (b >= 97 /\ b <= 122)

\* upper-case hexadecimal digit of a nibble
HexDigit(n) == IF n < 10 THEN 48 + n ELSE 55 + n

\* value of a hexadecimal digit of either case, or -1
HexValue(b) ==
    IF IsDigit(b) THEN b - 48
    ELSE IF b >= 65 /\ b <= 70 THEN b - 55
    ELSE IF b >= 97 /\ b <= 102 THEN b - 87
    ELSE -1

\* the RFC 3986 set: '-', '.', '_' and '~' are left as they are too
InEncodeSetUnreserved(b) == ~IsAsciiAlphanumeric(b) /\ b \notin {45, 46, 95, 126}

\* NON_ALPHANUMERIC: the bytes that are escaped
InEncodeSet(b) == ~IsAsciiAlphanumeric(b)

EncodeByte(b) ==
    IF InEncodeSet(b) THEN << 37, HexDigit(b \div 16), HexDigit(b % 16) >>
    ELSE << b >>

\* utf8_percent_encode(path, NON_ALPHANUMERIC).to_string()
RECURSIVE PercentEncode(_)
PercentEncode(s) ==
    IF s = <<>> THEN <<>>
    ELSE EncodeByte(Head(s)) \o PercentEncode(Tail(s))

\* percent_decode_str(s): "%XY" with two hexadecimal digits is one byte,
\* every other byte (a stray '%' too) is itself
RECURSIVE PercentDecodeFrom(_, _)
PercentDecodeFrom(s, i) ==
    IF i > Len(s) THEN <<>>
    ELSE IF /\ s[i] = 37
            /\ i + 2 <= Len(s)
            /\ HexValue(s[i + 1]) >= 0
            /\ HexValue(s[i + 2]) >= 0
         THEN << HexValue(s[i + 1]) * 16 + HexValue(s[i + 2]) >>
                  \o PercentDecodeFrom(s, i + 3)
         ELSE << s[i] >> \o PercentDecodeFrom(s, i + 1)

PercentDecode(s) == PercentDecodeFrom(s, 1)

---------------------------------------------------------------------------
(* Timestamps: NaiveDateTime as its calendar fields *)

DateTime(y, mo, d, h, mi, s, n) ==
    [year |-> y, month |-> mo, day |-> d,
     hour |-> h, minute |-> mi, second |-> s, nano |-> n]

\* 2024-03-01T10:15:00
T2024 == DateTime(2024, 3, 1, 10, 15, 0, 0)

TimeStamps ==
    { T2024,
      DateTime(2024, 3, 1, 10, 15, 0, 500),
      DateTime(2024, 3, 1, 10, 15, 1, 0),
      DateTime(2024, 2, 29, 23, 59, 59, 0),
      DateTime(1999, 12, 31, 0, 0, 0, 0) }

\* n as exactly w decimal digits, zero padded
RECURSIVE Digits(_, _)
Digits(n, w) ==
    IF w = 0 THEN <<>>
    ELSE Append(Digits(n \div 10, w - 1), 48 + (n % 10))

\* value of the w decimal digits of s at i, or -1
RECURSIVE DigitsValue(_, _, _)
DigitsValue(s, i, w) ==
    IF w = 0 THEN 0
    ELSE IF i + w - 1 > Len(s) \/ ~IsDigit(s[i + w - 1]) THEN -1
    ELSE LET hi == DigitsValue(s, i, w - 1)
         IN  IF hi < 0 THEN -1 ELSE hi * 10 + (s[i + w - 1] - 48)

\* TRASH_DATETIME_FORMAT, "%Y-%m-%dT%H:%M:%S": no sub-second field; years 0..9999
FormatDate(t) ==
    Digits(t.year, 4) \o <<45>> \o Digits(t.month, 2) \o <<45>>
      \o Digits(t.day, 2) \o <<84>> \o Digits(t.hour, 2) \o <<58>>
      \o Digits(t.minute, 2) \o <<58>> \o Digits(t.second, 2)

IsLeap(y) == (y % 4 = 0 /\ y % 100 # 0) \/ y % 400 = 0

DaysIn(y, m) ==
    IF m = 2 THEN (IF IsLeap(y) THEN 29 ELSE 28)
    ELSE IF m \in {4, 6, 9, 11} THEN 30 ELSE 31

\* NaiveDateTime::parse_from_str(s, TRASH_DATETIME_FORMAT)
ParseDate(s) ==
    LET y  == DigitsValue(s, 1, 4)
        mo == DigitsValue(s, 6, 2)
        d  == DigitsValue(s, 9, 2)
        h  == DigitsValue(s, 12, 2)
        mi == DigitsValue(s, 15, 2)
        se == DigitsValue(s, 18, 2)
    IN  IF /\ Len(s) = 19
           /\ s[5] = 45 /\ s[8] = 45 /\ s[11] = 84 /\ s[14] = 58 /\ s[17] = 58
           /\ y >= 0 /\ mo >= 1 /\ mo <= 12 /\ d >= 1 /\ d <= DaysIn(y, mo)
           /\ h >= 0 /\ h <= 23 /\ mi >= 0 /\ mi <= 59 /\ se >= 0 /\ se <= 59
        THEN Ok(DateTime(y, mo, d, h, mi, se, 0))
        ELSE Err("ParseTrashInfo", s)

---------------------------------------------------------------------------
(* The TrashInfo record and its pure operations *)

TrashInfo(pp, dd) == [percent_path |-> pp, deletion_date |-> dd]

Some(v) == [tag |-> "Some", val |-> v]
None == [tag |-> "None"]

\* TrashInfo::new(real_path, deletion_date); now is Local::now().naive_local()
TrashInfo_new(path, deletion_date, now) ==
    IF ~Utf8Valid(path) THEN Err("Utf8PercentEncode", path)
    ELSE Ok(TrashInfo(PercentEncode(path),
                      IF deletion_date.tag = "Some" THEN deletion_date.val
                      ELSE now))

\* TrashInfo::path
path(self) == self.percent_path

\* a lossy decoding: every byte that starts no well-formed sequence becomes U+FFFD
RECURSIVE Utf8LossyFrom(_, _)
Utf8LossyFrom(s, i) ==
    IF i > Len(s) THEN <<>>
    ELSE LET w == Utf8Width(s[i])
             good == /\ w # 0
                     /\ i + w - 1 <= Len(s)
                     /\ w >= 2 => Utf8Second(s[i], s[i + 1])
                     /\ \A k \in (i + 2)..(i + w - 1) : IsCont(s[k])
         IN  IF good THEN SubSeq(s, i, i + w - 1) \o Utf8LossyFrom(s, i + w)
             ELSE <<239, 191, 189>> \o Utf8LossyFrom(s, i + 1)

path_decoded_lossy(self) == Ok(Utf8LossyFrom(PercentDecode(self.percent_path), 1))

\* TrashInfo::path_decoded
path_decoded(self) ==
    LET bytes == PercentDecode(self.percent_path)
    IN  IF Utf8Valid(bytes) THEN Ok(bytes)
        ELSE Err("Utf8PercentDecode", self.percent_path)

\* TrashInfo::deletion_date
deletion_date(self) == self.deletion_date

\* TrashInfo::deletion_date_string_format
deletion_date_string_format(self) == FormatDate(self.deletion_date)

\* "[Trash Info]\nPath="
HeaderAndPathKey ==
    <<91, 84, 114, 97, 115, 104, 32, 73, 110, 102, 111, 93, 10,
      80, 97, 116, 104, 61>>

\* "\nDeletionDate="
DeletionDateKey ==
    <<10, 68, 101, 108, 101, 116, 105, 111, 110, 68, 97, 116, 101, 61>>

Display_fmt_no_newline(self) ==
    HeaderAndPathKey \o self.percent_path \o Tail(DeletionDateKey)
      \o deletion_date_string_format(self)

\* impl fmt::Display for TrashInfo; to_string() is this text
Display_fmt(self) ==
    HeaderAndPathKey \o self.percent_path \o DeletionDateKey
      \o deletion_date_string_format(self)

\* parser::parse_trash_info: the header line, then Path=<value> up to the end of
\* the line, then DeletionDate=<timestamp in the fixed pattern>; one final end of
\* line is accepted
parse_trash_info(s) ==
    LET start == Len(HeaderAndPathKey) + 1
        nl    == IndexFrom(s, 10, start)
        rest  == IF nl = 0 THEN <<>> ELSE SubSeq(s, nl, Len(s))
        dstr0 == IF Len(rest) >= Len(DeletionDateKey)
                 THEN SubSeq(rest, Len(DeletionDateKey) + 1, Len(rest))
                 ELSE <<>>
        dstr  == IF dstr0 # <<>> /\ dstr0[Len(dstr0)] = 10
                 THEN SubSeq(dstr0, 1, Len(dstr0) - 1) ELSE dstr0
        date  == ParseDate(dstr)
    IN  IF /\ IsPrefix(HeaderAndPathKey, s)
           /\ nl # 0
           /\ IsPrefix(DeletionDateKey, rest)
           /\ date.tag = "Ok"
        THEN Ok(TrashInfo(SubSeq(s, start, nl - 1), date.val))
        ELSE Err("ParseTrashInfo", s)

\* impl FromStr for TrashInfo
FromStr_from_str(s) == parse_trash_info(s)

---------------------------------------------------------------------------
(* Construction, rendering, parsing and decoding, one step each *)

\* '\n', '%', '/', 'a', and the two bytes of U+00E9
PathBytes == {10, 37, 47, 97, 195, 169}

\* "/home/user/notes.txt"
NotesPath ==
    <<47, 104, 111, 109, 101, 47, 117, 115, 101, 114, 47,
      110, 111, 116, 101, 115, 46, 116, 120, 116>>

RealPaths == SeqsUpTo(PathBytes, MaxPathLen) \cup {NotesPath}

\* '%', '2', 'C', 'F', 'a'
StoredBytes == {37, 50, 67, 70, 97}

StoredStrings == SeqsUpTo(StoredBytes, MaxStoredLen)

\* a record file written by other tooling
ForeignText(stored) == HeaderAndPathKey \o stored \o DeletionDateKey \o FormatDate(T2024)

Foreign == [tag |-> "Foreign"]

IdleCodec ==
    /\ real_path = <<>>
    /\ date_arg = None
    /\ info = Foreign
    /\ text = Unset
    /\ parsed = Unset
    /\ decodedInfo = Unset
    /\ decodedParsed = Unset

InitCodec ==
    /\ parsed = Unset
    /\ decodedInfo = Unset
    /\ decodedParsed = Unset
    /\ \/ /\ real_path \in RealPaths
          /\ date_arg \in {None} \cup { Some(t) : t \in TimeStamps }
          /\ info = Unset
          /\ text = Unset
       \/ /\ real_path = <<>>
          /\ date_arg = None
          /\ info = Foreign
          /\ text \in { Ok(ForeignText(s)) : s \in StoredStrings }

New ==
    /\ info = Unset
    /\ \E now \in TimeStamps : info' = TrashInfo_new(real_path, date_arg, now)
    /\ UNCHANGED <<real_path, date_arg, text, parsed, decodedInfo, decodedParsed>>
    /\ UNCHANGED notCodec

Display ==
    /\ info.tag = "Ok"
    /\ text = Unset
    /\ text' = Ok(Display_fmt(info.val))
    /\ UNCHANGED <<real_path, date_arg, info, parsed, decodedInfo, decodedParsed>>
    /\ UNCHANGED notCodec

Parse ==
    /\ text.tag = "Ok"
    /\ parsed = Unset
    /\ parsed' = FromStr_from_str(text.val)
    /\ UNCHANGED <<real_path, date_arg, info, text, decodedInfo, decodedParsed>>
    /\ UNCHANGED notCodec

PathDecodedInfo ==
    /\ info.tag = "Ok"
    /\ decodedInfo = Unset
    /\ decodedInfo' = path_decoded(info.val)
    /\ UNCHANGED <<real_path, date_arg, info, text, parsed, decodedParsed>>
    /\ UNCHANGED notCodec

PathDecodedParsed ==
    /\ parsed.tag = "Ok"
    /\ decodedParsed = Unset
    /\ decodedParsed' = path_decoded(parsed.val)
    /\ UNCHANGED <<real_path, date_arg, info, text, parsed, decodedInfo>>
    /\ UNCHANGED notCodec

NextCodec ==
    \/ New
    \/ Display
    \/ Parse
    \/ PathDecodedInfo
    \/ PathDecodedParsed

---------------------------------------------------------------------------
(* Ordering *)

DateFields(t) == <<t.year, t.month, t.day, t.hour, t.minute, t.second, t.nano>>

\* Ord for NaiveDateTime: the date, then the time of day
RECURSIVE FieldsCmp(_, _, _)
FieldsCmp(x, y, i) ==
    IF i > Len(x) THEN "Equal"
    ELSE IF x[i] < y[i] THEN "Less"
    ELSE IF x[i] > y[i] THEN "Greater"
    ELSE FieldsCmp(x, y, i + 1)

DateCmp(ta, tb) == FieldsCmp(DateFields(ta), DateFields(tb), 1)

\* what a derived Ord would do: the fields in declaration order, path first
cmp_derived(self, other) ==
    IF self.percent_path # other.percent_path
    THEN (IF Len(self.percent_path) < Len(other.percent_path)
          THEN "Less" ELSE "Greater")
    ELSE DateCmp(self.deletion_date, other.deletion_date)

\* impl Ord for TrashInfo
cmp(self, other) == DateCmp(self.deletion_date, other.deletion_date)

\* impl PartialOrd for TrashInfo
partial_cmp(self, other) == Some(cmp(self, other))

\* "a", "/a", "b%"
OrdPaths == { <<97>>, <<47, 97>>, <<98, 37>> }

OrdRecords == { TrashInfo_new(p, Some(t), t).val : p \in OrdPaths, t \in TimeStamps }

IdleOrd ==
    /\ recs = <<>>
    /\ cmps = Unset

InitOrd ==
    /\ recs \in [1..3 -> OrdRecords]
    /\ cmps = Unset

Compare ==
    /\ cmps = Unset
    /\ cmps' = Ok([i \in 1..3, j \in 1..3 |->
                     [cmp |-> cmp(recs[i], recs[j]),
                      partial_cmp |-> partial_cmp(recs[i], recs[j])]])
    /\ UNCHANGED recs
    /\ UNCHANGED notOrd

NextOrd == Compare

---------------------------------------------------------------------------
(* Path::file_name, Path::extension and PathBuf::set_extension, for a path   *)
(* of one component (a name inside the trash-info directory)                *)

\* crate::TRASH_INFO_EXT, "trashinfo"
TRASH_INFO_EXT == <<116, 114, 97, 115, 104, 105, 110, 102, 111>>

\* "" , "." and ".." name no file
FileName(p) ==
    IF p = <<>> \/ p = <<46>> \/ p = <<46, 46>> THEN None ELSE Some(p)

\* the file name split at its last '.', a leading '.' being part of the stem
SplitFileAtDot(file) ==
    LET i == LastIndexFrom(file, 46, Len(file))
    IN  IF i = 0 THEN [before |-> None, after |-> Some(file)]
        ELSE IF i = 1 THEN [before |-> Some(file), after |-> None]
        ELSE [before |-> Some(SubSeq(file, 1, i - 1)),
              after  |-> Some(SubSeq(file, i + 1, Len(file)))]

\* Path::extension
Extension(p) ==
    LET f == FileName(p)
    IN  IF f = None THEN None
        ELSE LET sp == SplitFileAtDot(f.val)
             IN  IF sp.before = None THEN None ELSE sp.after

\* Path::file_stem
FileStem(p) ==
    LET f == FileName(p)
    IN  IF f = None THEN None
        ELSE LET sp == SplitFileAtDot(f.val)
             IN  IF sp.before # None THEN sp.before ELSE sp.after

---------------------------------------------------------------------------
(* check_extension and parse_from_path *)

\* a statement "expr;": the value is computed and dropped
Dropped(value, then) == then

\* check_extension: both failure branches build the error with fail() and drop it
check_extension(p) ==
    LET ext == Extension(p)
    IN  IF ext # None
        THEN IF ext.val # TRASH_INFO_EXT
             THEN Dropped(Err("WrongExtension", p), Ok(<<>>))
             ELSE Ok(<<>>)
        ELSE Dropped(Err("NoExtension", p), Ok(<<>>))

\* 'a' and '.'
StemBytes == {97, 46}

\* "", ".trashinfo", ".txt", "trashinfo", ".trashinfo.txt", ".trashinf"
Tails ==
    { <<>>,
      <<46>> \o TRASH_INFO_EXT,
      <<46, 116, 120, 116>>,
      TRASH_INFO_EXT,
      <<46>> \o TRASH_INFO_EXT \o <<46, 116, 120, 116>>,
      <<46>> \o SubSeq(TRASH_INFO_EXT, 1, Len(TRASH_INFO_EXT) - 1) }

LoadPaths == { st \o tl : st \in SeqsUpTo(StemBytes, MaxStem), tl \in Tails }

Absent == [tag |-> "Absent"]
Dir == [tag |-> "Dir"]
File(bytes) == [tag |-> "File", bytes |-> bytes]

\* a well-formed record, a record without its DeletionDate line, bytes that
\* are no text
DiskContents ==
    { Absent,
      File(Display_fmt(TrashInfo(PercentEncode(NotesPath), T2024))),
      File(HeaderAndPathKey \o PercentEncode(NotesPath)),
      File(<<195>>) }

\* fs::read_to_string
read_to_string(d) ==
    IF d.tag = "File" /\ Utf8Valid(d.bytes) THEN Ok(d.bytes)
    ELSE Err("io", d.tag)

IdleLoad ==
    /\ lpath = <<>>
    /\ disk = Absent
    /\ lpc = "idle"
    /\ ltrace = <<>>
    /\ extres = Unset
    /\ lres = Unset

InitLoad ==
    /\ lpath \in LoadPaths
    /\ disk \in (IF FileName(lpath) = None THEN {Dir} ELSE DiskContents)
    /\ lpc = "check_extension"
    /\ ltrace = <<>>
    /\ extres = Unset
    /\ lres = Unset

\* line 137: check_extension(path)?
LoadCheckExtension ==
    /\ lpc = "check_extension"
    /\ extres' = check_extension(lpath)
    /\ ltrace' = Append(ltrace, "check_extension")
    /\ IF extres'.tag = "Err"
       THEN lpc' = "done" /\ lres' = extres'
       ELSE lpc' = "read_to_string" /\ lres' = lres
    /\ UNCHANGED <<lpath, disk>>
    /\ UNCHANGED notLoad

\* lines 138-139: fs::read_to_string(path).context(ReadToStr { path })?
LoadRead ==
    /\ lpc = "read_to_string"
    /\ ltrace' = Append(ltrace, "read_to_string")
    /\ IF read_to_string(disk).tag = "Err"
       THEN lpc' = "done" /\ lres' = Err("ReadToStr", lpath)
       ELSE lpc' = "parse" /\ lres' = lres
    /\ UNCHANGED <<lpath, disk, extres>>
    /\ UNCHANGED notLoad

\* lines 140-141: .parse::<TrashInfo>()? ; Ok(trash_info)
LoadParse ==
    /\ lpc = "parse"
    /\ ltrace' = Append(ltrace, "parse")
    /\ lpc' = "done"
    /\ lres' = FromStr_from_str(read_to_string(disk).val)
    /\ UNCHANGED <<lpath, disk, extres>>
    /\ UNCHANGED notLoad

NextLoad ==
    \/ LoadCheckExtension
    \/ LoadRead
    \/ LoadParse

---------------------------------------------------------------------------
(* save *)

\* PathBuf::set_extension: nothing changes when the path names no file; else
\* the name is cut after its stem and "." extension is added
set_extension(p, extension) ==
    LET stem == FileStem(p)
    IN  IF stem = None THEN p
        ELSE stem.val \o (IF extension = <<>> THEN <<>> ELSE <<46>> \o extension)

\* utils::to_trash_info_dir: the path inside the trash-info directory; a
\* target is written as its path relative to that directory
to_trash_info_dir(name) == name

\* the trash-info directory itself (and its parent) exist, as directories
IsDirectory(target) == FileName(target) = None

Exists(fs, target) == target \in DOMAIN fs \/ IsDirectory(target)

OpenOptions(r, w, c, cn, a, t) ==
    [read |-> r, write |-> w, create |-> c, create_new |-> cn,
     append |-> a, truncate |-> t]

\* the same options without create_new(true) and with create(true)
SaveOpenOptionsCreate == OpenOptions(FALSE, TRUE, TRUE, FALSE, FALSE, FALSE)

\* lines 118-124
SaveOpenOptions == OpenOptions(FALSE, TRUE, FALSE, TRUE, FALSE, FALSE)

\* OpenOptions::open on a filesystem that refuses nothing: the error, or the
\* filesystem after the open and the position of the file cursor
open(opts, fs, target) ==
    IF opts.create_new
    THEN IF Exists(fs, target) THEN Err("io", "AlreadyExists")
         ELSE Ok([fs |-> (target :> <<>>) @@ fs, cursor |-> 0])
    ELSE IF IsDirectory(target) THEN Err("io", "IsADirectory")
    ELSE IF target \in DOMAIN fs
         THEN LET len == IF opts.truncate THEN 0 ELSE Len(fs[target])
              IN  Ok([fs |-> [fs EXCEPT ![target] = SubSeq(@, 1, len)],
                      cursor |-> IF opts.append THEN len ELSE 0])
    ELSE IF opts.create
         THEN Ok([fs |-> (target :> <<>>) @@ fs, cursor |-> 0])
    ELSE Err("io", "NotFound")

\* write(2) of bytes at the file cursor
WriteAt(content, cursor, bytes) ==
    SubSeq(content, 1, cursor) \o bytes
      \o SubSeq(content, cursor + Len(bytes) + 1, Len(content))

Calls == 1..NumCalls

\* "a", "a.txt", "b", ""
SaveNames == { <<97>>, <<97, 46, 116, 120, 116>>, <<98>>, <<>> }

\* the (real path, timestamp) pairs records are built from
SaveInputs ==
    { [path |-> NotesPath, date |-> T2024],
      [path |-> <<97>>, date |-> DateTime(1999, 12, 31, 0, 0, 0, 0)] }

\* "b.trashinfo", a record file that is there before any call
OldTarget == <<98, 46>> \o TRASH_INFO_EXT

IdleCall ==
    [pc |-> "idle", src |-> Unset, self |-> Unset, name |-> <<>>, target |-> <<>>,
     buf |-> <<>>, cursor |-> 0, off |-> 0, shorts |-> 0, res |-> Unset,
     fault |-> "none", existed |-> FALSE, pre |-> {}]

IdleSave ==
    /\ files = <<>>
    /\ calls = <<>>

\* the directory before the first call: one record file of other tooling
InitialFiles == (OldTarget :> ForeignText(<<97>>))

InitSave ==
    /\ files = InitialFiles
    /\ calls = [c \in Calls |-> IdleCall]

\* TrashInfo::new(path, Some(date))?.save(name), lines 114-116
SaveCall(c) ==
    /\ calls[c].pc = "idle"
    /\ \E in \in SaveInputs, name \in SaveNames :
         LET self == TrashInfo_new(in.path, Some(in.date), in.date).val
         IN  calls' = [calls EXCEPT ![c] =
                 [@ EXCEPT !.pc = "open", !.src = in, !.self = self,
                           !.name = name,
                           !.target = to_trash_info_dir(
                                          set_extension(name, TRASH_INFO_EXT)),
                           !.pre = { d \in Calls : calls[d].pc = "done" }]]
    /\ UNCHANGED files
    /\ UNCHANGED notSave

\* lines 118-126: the open, and the return of FileOpen when it fails
SaveOpen(c) ==
    /\ calls[c].pc = "open"
    /\ LET o == open(SaveOpenOptions, files, calls[c].target)
           was == Exists(files, calls[c].target)
       IN  IF o.tag = "Ok"
           THEN /\ files' = o.val.fs
                /\ calls' = [calls EXCEPT ![c] =
                       [@ EXCEPT !.pc = "write", !.existed = was,
                                 !.cursor = o.val.cursor,
                                 !.buf = Display_fmt(calls[c].self)]]
           ELSE /\ files' = files
                /\ calls' = [calls EXCEPT ![c] =
                       [@ EXCEPT !.pc = "done", !.existed = was,
                                 !.res = Err("FileOpen", calls[c].target)]]
    /\ UNCHANGED notSave

\* lines 118-126 when the filesystem refuses the creation (permissions, a
\* missing directory)
SaveOpenRefused(c) ==
    /\ calls[c].pc = "open"
    /\ ~Exists(files, calls[c].target)
    /\ calls' = [calls EXCEPT ![c] =
           [@ EXCEPT !.pc = "done", !.fault = "open",
                     !.res = Err("FileOpen", calls[c].target)]]
    /\ UNCHANGED files
    /\ UNCHANGED notSave

\* the write counts write(2) may accept of `left` bytes
WriteCounts(left, shorts) ==
    {left} \cup (IF shorts < MaxShortWrites
                 THEN { n \in {1, left \div 2} : n >= 1 /\ n < left }
                 ELSE {})

\* lines 128-132: one write(2) of write_all, and Ok(()) after the last
SaveWrite(c) ==
    /\ calls[c].pc = "write"
    /\ LET cl == calls[c]
           left == Len(cl.buf) - cl.off
       IN  \E n \in WriteCounts(left, cl.shorts) :
             /\ files' = [files EXCEPT ![cl.target] =
                    WriteAt(@, cl.cursor + cl.off,
                            SubSeq(cl.buf, cl.off + 1, cl.off + n))]
             /\ calls' = [calls EXCEPT ![c] =
                    [@ EXCEPT !.off = cl.off + n,
                              !.shorts = IF n < left THEN cl.shorts + 1 ELSE cl.shorts,
                              !.pc = IF n = left THEN "done" ELSE "write",
                              !.res = IF n = left THEN Ok(<<>>) ELSE cl.res]]
    /\ UNCHANGED notSave

\* lines 128-130: a write(2) fails and save returns TrashInfoWrite
SaveWriteError(c) ==
    /\ calls[c].pc = "write"
    /\ calls' = [calls EXCEPT ![c] =
           [@ EXCEPT !.pc = "done", !.fault = "write",
                     !.res = Err("TrashInfoWrite", "io")]]
    /\ UNCHANGED files
    /\ UNCHANGED notSave

NextSave ==
    \E c \in Calls :
        \/ SaveCall(c)
        \/ SaveOpen(c)
        \/ SaveOpenRefused(c)
        \/ SaveWrite(c)
        \/ SaveWriteError(c)

---------------------------------------------------------------------------
(* Specifications: one per group of operations *)

InitCodecSpec == InitCodec /\ IdleOrd /\ IdleLoad /\ IdleSave
SpecCodec == InitCodecSpec /\ [][NextCodec]_vars

InitOrdSpec == IdleCodec /\ InitOrd /\ IdleLoad /\ IdleSave
SpecOrd == InitOrdSpec /\ [][NextOrd]_vars

InitLoadSpec == IdleCodec /\ IdleOrd /\ InitLoad /\ IdleSave
SpecLoad == InitLoadSpec /\ [][NextLoad]_vars

InitSaveSpec == IdleCodec /\ IdleOrd /\ IdleLoad /\ InitSave
SpecSave == InitSaveSpec /\ [][NextSave]_vars

---------------------------------------------------------------------------
(* Properties of save *)

FailedOpen(c) ==
    /\ calls[c].pc = "done"
    /\ calls[c].res.tag = "Err"
    /\ calls[c].res.kind = "FileOpen"

FailedWrite(c) ==
    /\ calls[c].pc = "done"
    /\ calls[c].res.tag = "Err"
    /\ calls[c].res.kind = "TrashInfoWrite"

Succeeded(c) == calls[c].pc = "done" /\ calls[c].res = Ok(<<>>)

\* the open of call c has returned a file
Opened(c) == calls[c].pc = "write" \/ Succeeded(c) \/ FailedWrite(c)

\* call c returned before call d was made, with the same storage name
ThenSameName(c, d) ==
    /\ c # d
    /\ calls[d].pc # "idle"
    /\ c \in calls[d].pre
    /\ calls[c].name = calls[d].name

\* C1: when save(n) on r1 finds no file for n and meets no I/O failure, it
\* succeeds; a save(n) on r2 made after it returned fails with FileOpen, and
\* the record file holds exactly the rendered text of r1, then and ever after.
C1_ExclusiveCreate ==
    \A c1 \in Calls, c2 \in Calls :
        (/\ ThenSameName(c1, c2)
         /\ ~calls[c1].existed
         /\ calls[c1].fault = "none")
        => /\ Succeeded(c1)
           /\ calls[c2].pc # "write"
           /\ calls[c2].pc = "done" => FailedOpen(c2)
           /\ calls[c1].target \in DOMAIN files
           /\ files[calls[c1].target] = Display_fmt(calls[c1].self)

C1_Witness ==
    \E c1 \in Calls, c2 \in Calls :
        /\ ThenSameName(c1, c2)
        /\ ~calls[c1].existed
        /\ calls[c1].fault = "none"
        /\ calls[c1].src # calls[c2].src
        /\ FailedOpen(c2)
        /\ files[calls[c1].target] = Display_fmt(calls[c1].self)

\* "[Trash Info]\nPath=%2Fhome%2Fuser%2Fnotes.txt\nDeletionDate=2024-03-01T10:15:00"
NotesTextDotLiteral ==
    <<91, 84, 114, 97, 115, 104, 32, 73, 110, 102, 111, 93, 10,
      80, 97, 116, 104, 61,
      37, 50, 70, 104, 111, 109, 101, 37, 50, 70, 117, 115, 101, 114,
      37, 50, 70, 110, 111, 116, 101, 115, 46, 116, 120, 116, 10,
      68, 101, 108, 101, 116, 105, 111, 110, 68, 97, 116, 101, 61,
      50, 48, 50, 52, 45, 48, 51, 45, 48, 49, 84, 49, 48, 58, 49, 53, 58, 48, 48>>

\* "[Trash Info]\nPath=%2Fhome%2Fuser%2Fnotes%2Etxt\nDeletionDate=2024-03-01T10:15:00"
NotesTextDotEscaped ==
    <<91, 84, 114, 97, 115, 104, 32, 73, 110, 102, 111, 93, 10,
      80, 97, 116, 104, 61,
      37, 50, 70, 104, 111, 109, 101, 37, 50, 70, 117, 115, 101, 114,
      37, 50, 70, 110, 111, 116, 101, 115, 37, 50, 69, 116, 120, 116, 10,
      68, 101, 108, 101, 116, 105, 111, 110, 68, 97, 116, 101, 61,
      50, 48, 50, 52, 45, 48, 51, 45, 48, 49, 84, 49, 48, 58, 49, 53, 58, 48, 48>>

\* call c saves the record built from /home/user/notes.txt and 2024-03-01T10:15:00
SavesNotes(c) ==
    /\ calls[c].pc \in {"write", "done"}
    /\ Opened(c)
    /\ calls[c].src = [path |-> NotesPath, date |-> T2024]

\* the text write_all was given by call c, and what the file holds once it succeeded
NotesRendering(c, expected) ==
    /\ calls[c].buf = expected
    /\ Succeeded(c) => files[calls[c].target] = expected

\* C6 as stated: the record of /home/user/notes.txt and 2024-03-01T10:15:00 renders
\* with the path line "Path=%2Fhome%2Fuser%2Fnotes.txt" (the '.' kept), and that
\* text is what save writes.
C6_AsStated == \A c \in Calls : SavesNotes(c) => NotesRendering(c, NotesTextDotLiteral)

\* C6 amended: the record renders as the three lines "[Trash Info]",
\* "Path=%2Fhome%2Fuser%2Fnotes%2Etxt", "DeletionDate=2024-03-01T10:15:00", joined
\* by single newlines with nothing after the timestamp, and that text is the exact
\* byte sequence save writes.
C6_NotesRendering == \A c \in Calls : SavesNotes(c) => NotesRendering(c, NotesTextDotEscaped)

C6_Witness ==
    \E c \in Calls :
        /\ SavesNotes(c)
        /\ Succeeded(c)
        /\ files[calls[c].target] = NotesTextDotEscaped

CallsOn(t) == { c \in Calls : calls[c].pc # "idle" /\ calls[c].target = t }
Winners(t) == { c \in CallsOn(t) : Opened(c) }

\* C9: of the save calls racing for one record file that was not there before, at
\* most one open succeeds and every other call fails with FileOpen; once all have
\* returned exactly one has succeeded at the open (unless the filesystem refused
\* every one of them), and the file holds bytes of the winner only: a prefix of
\* its rendered text.
C9_OneWinner ==
    \A t \in { calls[c].target : c \in Calls } :
        (t \notin DOMAIN InitialFiles /\ ~IsDirectory(t) /\ CallsOn(t) # {})
        => /\ Cardinality(Winners(t)) <= 1
           /\ \A c \in CallsOn(t) \ Winners(t) :
                  calls[c].pc = "done" => FailedOpen(c)
           /\ (/\ \A c \in CallsOn(t) : calls[c].pc = "done"
               /\ \E c \in CallsOn(t) : calls[c].fault # "open")
              => Cardinality(Winners(t)) = 1
           /\ t \in DOMAIN files <=> Winners(t) # {}
           /\ \A w \in Winners(t) :
                  /\ files[t] = SubSeq(Display_fmt(calls[w].self), 1, calls[w].off)
                  /\ ~calls[w].existed

C9_Witness ==
    \E c \in Calls, d \in Calls :
        /\ c # d
        /\ calls[c].name = calls[d].name
        /\ calls[c].src # calls[d].src
        /\ c \notin calls[d].pre
        /\ d \notin calls[c].pre
        /\ Succeeded(c)
        /\ FailedOpen(d)
        /\ calls[d].fault = "none"
        /\ calls[c].target \notin DOMAIN InitialFiles

\* the state part of C10
C10_State ==
    \A c \in Calls :
        FailedWrite(c)
        => /\ calls[c].target \in DOMAIN files
           /\ files[calls[c].target] = SubSeq(Display_fmt(calls[c].self), 1, calls[c].off)
           /\ calls[c].off < Len(Display_fmt(calls[c].self))
           /\ \A d \in Calls :
                  ThenSameName(c, d)
                  => /\ calls[d].pc # "write"
                     /\ calls[d].pc = "done" => FailedOpen(d)

\* the step part of C10
C10_Step ==
    /\ \A t \in DOMAIN files : t \in DOMAIN files'
    /\ \A c \in Calls :
          /\ FailedWrite(c) => files'[calls[c].target] = files[calls[c].target]
          /\ (calls[c].pc = "open" /\ calls'[c].pc = "done") => files' = files
          /\ (calls[c].pc = "write" /\ calls'[c].pc = "done"
              /\ calls'[c].res.tag = "Err") => files' = files

\* C10: a save that fails with TrashInfoWrite rolls nothing back: the file it
\* created stays, holding a strict prefix of the rendered text, no step removes or
\* changes it, and every later save with the same storage name fails with FileOpen;
\* a save that fails at the open creates no file and changes no file.
C10_NoRollback == []C10_State /\ [][C10_Step]_vars

C10_Witness ==
    \E c \in Calls, d \in Calls :
        /\ FailedWrite(c)
        /\ calls[c].off > 0
        /\ ThenSameName(c, d)
        /\ FailedOpen(d)

---------------------------------------------------------------------------
(* Properties of check_extension and parse_from_path *)

\* the rule of extension validation
ExtensionRule(p) ==
    LET ext == Extension(p)
    IN  IF ext = None THEN Err("NoExtension", p)
        ELSE IF ext.val = TRASH_INFO_EXT THEN Ok(<<>>)
        ELSE Err("WrongExtension", p)

\* C2: check_extension passes a path whose extension is the required one, fails
\* with WrongExtension on any other extension and with NoExtension on none; no
\* path with a wrong or missing extension yields success.
C2_ThreeWay == extres # Unset => extres = ExtensionRule(lpath)

\* C3: parse_from_path checks the extension, reads, parses, in that order, and
\* returns the first failure: with a wrong or missing extension it returns
\* WrongExtension / NoExtension having neither read the file nor called the
\* parser; with the right extension and readable, malformed content it returns
\* the parser's error.
C3_FirstFailure ==
    /\ ExtensionRule(lpath).tag = "Err"
       => /\ "read_to_string" \notin { ltrace[i] : i \in DOMAIN ltrace }
          /\ "parse" \notin { ltrace[i] : i \in DOMAIN ltrace }
          /\ lpc = "done" => lres = ExtensionRule(lpath)
    /\ (/\ lpc = "done"
        /\ ExtensionRule(lpath).tag = "Ok"
        /\ read_to_string(disk).tag = "Ok"
        /\ parse_trash_info(read_to_string(disk).val).tag = "Err")
       => /\ lres = parse_trash_info(read_to_string(disk).val)
          /\ ltrace = <<"check_extension", "read_to_string", "parse">>

---------------------------------------------------------------------------
(* Properties of construction, rendering, parsing and decoding *)

\* C4: for a path p that is text and a timestamp t of whole seconds, the text
\* rendered from new(p, Some(t)) parses back to a record whose timestamp is t and
\* whose decoded path is p.
C4_RoundTrip ==
    (/\ info.tag = "Ok"
     /\ date_arg.tag = "Some"
     /\ date_arg.val.nano = 0)
    => /\ parsed # Unset
          => /\ parsed.tag = "Ok"
             /\ deletion_date(parsed.val) = date_arg.val
       /\ decodedParsed # Unset => decodedParsed = Ok(real_path)

C4_Witness ==
    /\ real_path = <<47, 195, 169>>
    /\ date_arg = Some(T2024)
    /\ parsed.tag = "Ok"
    /\ deletion_date(parsed.val) = T2024
    /\ decodedParsed = Ok(real_path)

\* the places of s where an escape "%XY" starts
IsHex(b) == b \in (48..57) \cup (65..70) \cup (97..102)
HexOf(b) == IF b <= 57 THEN b - 48 ELSE IF b <= 70 THEN b - 55 ELSE b - 87
Escapes(s) ==
    { i \in 1..(Len(s) - 2) : s[i] = 37 /\ IsHex(s[i + 1]) /\ IsHex(s[i + 2]) }

\* s with every escape replaced by its byte and every other byte kept, in order
Unescaped(s) ==
    LET E == Escapes(s)
        kept == { j \in 1..Len(s) : \A e \in E : j # e + 1 /\ j # e + 2 }
        place(j) == j - 2 * Cardinality({ e \in E : e < j })
        byte(j) == IF j \in E THEN 16 * HexOf(s[j + 1]) + HexOf(s[j + 2]) ELSE s[j]
    IN  [k \in 1..(Len(s) - 2 * Cardinality(E)) |->
            byte(CHOOSE j \in kept : place(j) = k)]

\* what path_decoded must return for a stored path s
DecodedOrError(s) ==
    IF Utf8Valid(Unescaped(s)) THEN Ok(Unescaped(s))
    ELSE Err("Utf8PercentDecode", s)

\* the state part of C5
C5_State ==
    /\ (info.tag = "Ok" /\ decodedInfo # Unset)
       => /\ decodedInfo = Ok(real_path)
          /\ decodedInfo = DecodedOrError(path(info.val))
    /\ decodedParsed # Unset
       => decodedParsed = DecodedOrError(path(parsed.val))

\* the step part of C5
C5_Step ==
    (decodedInfo' # decodedInfo \/ decodedParsed' # decodedParsed)
    => (info' = info /\ parsed' = parsed)

\* C5: path_decoded on the record built by new(p, _) returns exactly p; on a
\* record holding any stored path it returns either the string with every escape
\* decoded and every other byte kept, or Utf8PercentDecode carrying the stored
\* string, and it leaves the record as it was.
C5_DecodeTotal == []C5_State /\ [][C5_Step]_vars

C5_Witness ==
    /\ info = Foreign
    /\ parsed.tag = "Ok"
    /\ path(parsed.val) = <<37, 67, 70>>
    /\ decodedParsed = Err("Utf8PercentDecode", <<37, 67, 70>>)

---------------------------------------------------------------------------
(* Properties of the ordering *)

\* ta is an earlier instant than tb
DayNumber(t) == (t.year * 12 + (t.month - 1)) * 31 + (t.day - 1)
SecondOfDay(t) == (t.hour * 60 + t.minute) * 60 + t.second
Earlier(ta, tb) ==
    \/ DayNumber(ta) < DayNumber(tb)
    \/ DayNumber(ta) = DayNumber(tb) /\ SecondOfDay(ta) < SecondOfDay(tb)
    \/ /\ DayNumber(ta) = DayNumber(tb)
       /\ SecondOfDay(ta) = SecondOfDay(tb)
       /\ ta.nano < tb.nano

Lt(i, j) == cmps.val[i, j].cmp = "Less"
Tied(i, j) == ~Lt(i, j) /\ ~Lt(j, i)

\* C7: records order by deletion timestamp alone: an earlier timestamp orders
\* before a later one whatever the paths, equal timestamps compare Equal whatever
\* the paths, partial_cmp agrees with cmp, and "less" is a strict weak ordering.
C7_OrderByDate ==
    cmps # Unset
    => /\ \A i \in 1..3, j \in 1..3 :
              /\ Earlier(recs[i].deletion_date, recs[j].deletion_date)
                 => cmps.val[i, j].cmp = "Less" /\ cmps.val[j, i].cmp = "Greater"
              /\ recs[i].deletion_date = recs[j].deletion_date
                 => cmps.val[i, j].cmp = "Equal"
              /\ cmps.val[i, j].partial_cmp = Some(cmps.val[i, j].cmp)
       /\ \A i \in 1..3 : ~Lt(i, i)
       /\ \A i \in 1..3, j \in 1..3, k \in 1..3 :
              /\ (Lt(i, j) /\ Lt(j, k)) => Lt(i, k)
              /\ (Tied(i, j) /\ Tied(j, k)) => Tied(i, k)

C7_Witness ==
    /\ cmps # Unset
    /\ recs[1].deletion_date = recs[2].deletion_date
    /\ recs[1].percent_path # recs[2].percent_path
    /\ cmps.val[1, 2].cmp = "Equal"
    /\ Earlier(recs[3].deletion_date, recs[1].deletion_date)
    /\ Len(recs[3].percent_path) > Len(recs[1].percent_path)
    /\ cmps.val[3, 1].cmp = "Less"

===========================================================================
